---- MODULE Spec2Model ----
(***************************************************************************)
(* A model of src/src/Configurator.cpp: the Configurator engine (scan,     *)
(* Run loop, timestamp cache stamps, BusResponseAsync) and the             *)
(* ConfiguratorCallback response correlator.                               *)
(*                                                                         *)
(* Paths are sequences of one-character strings, so that the stamp name    *)
(* computed by Replace(confFile, "/", "_") is computed as the code does.   *)
(* Times are small naturals; stamp time 0 means "no stamp file".           *)
(* MojErrCheck / MojErrThrowMsg are the MojoDB macros that return the      *)
(* error code from the enclosing function.                                 *)
(***************************************************************************)
EXTENDS Integers, Sequences, FiniteSets, TLC

\* ------------------------------------------------------------------ bounds
MaxMtime == 3        \* file modification times range over 1..MaxMtime
MaxPasses == 2       \* engine instances created one after the other
MaxOwnerRuns == 2    \* direct Run() calls by the owner per engine instance
MaxHookCalls == 2    \* calls the per-artifact hooks make on their callbacks, per engine
MaxFaults == 1       \* environment faults (I/O, serialisation, thrown hook) per run
MaxTouches == 1      \* modifications of artifact files by the outside world
MaxFiles == 2        \* artifact files in the tree

MaxTime == MaxMtime + 1

\* ------------------------------------------------------------- error codes
MojErrNone == "MojErrNone"
MojErrInProgress == "MojErrInProgress"
MojErrAccessDenied == "MojErrAccessDenied"
MojErrInternal == "MojErrInternal"
MojErrInvalidArg == "MojErrInvalidArg"
MojErrJsonParse == "MojErrJsonParse"

\* run types (Configurator::RunType)
Configure == "Configure"
Reconfigure == "Reconfigure"
RemoveConfiguration == "RemoveConfiguration"
RunTypes == {Configure, Reconfigure, RemoveConfiguration}

\* ------------------------------------------------------- the directory tree
ConfigDir == <<"r">>
Dot == <<".">>
DotDot == <<".", ".">>
NameA == <<"a">>
NameB_C == <<"b", "_", "c">>
NameB == <<"b">>
NameC == <<"c">>

FileA == <<"r", "/", "a">>
FileB_C == <<"r", "/", "b", "_", "c">>
DirB == <<"r", "/", "b">>
FileBC == <<"r", "/", "b", "/", "c">>
AllFiles == {FileA, FileB_C, FileBC}
NoFile == <<>>

\* ----------------------------------------------------------------- Replace
RECURSIVE Find(_, _, _)
\* std::string::find(substr, pos): 1-based position of the first occurrence at or
\* after from, 0 for npos
Find(input, substr, from) ==
  IF from + Len(substr) - 1 > Len(input) THEN 0
  ELSE IF SubSeq(input, from, from + Len(substr) - 1) = substr THEN from
  ELSE Find(input, substr, from + 1)

RECURSIVE ReplaceFrom(_, _, _, _)
\* the while loop of Replace, entered with i the position found
ReplaceFrom(input, substr, replacement, i) ==
  IF i = 0 THEN input
  ELSE LET l == Len(substr)
           out == SubSeq(input, 1, i - 1) \o replacement \o SubSeq(input, i + l, Len(input))
       IN ReplaceFrom(out, substr, replacement, Find(out, substr, i + l))

Replace(input, substr, replacement) ==
  ReplaceFrom(input, substr, replacement, Find(input, substr, 1))

kConfCacheDir == <<"k", "/">>

\* the stamp path of an artifact
StampOf(confFile) == kConfCacheDir \o Replace(confFile, <<"/">>, <<"_">>)

StampNames == {StampOf(f) : f \in AllFiles}

\* ------------------------------------------------------------------- state
VARIABLES
  exists,              \* artifact files present under the root directory
  rootExists,          \* whether the root directory can be opened
  mtime,               \* st_mtime of each artifact file
  stamps,              \* st_mtime of each stamp file, 0 when there is none
  noCache,             \* artifacts for which CanCacheConfiguratorStatus is false
  m_currentType,
  m_configs,           \* the Backlog
  m_pendingConfigs,    \* the Pending Set
  m_completed,
  m_scanned,
  m_emptyConfigurator,
  m_parentDirMap,
  m_configureOk,       \* static: applied-successfully list
  m_configureFailed,   \* static: failed list
  cb,                  \* the ConfiguratorCallback created for each artifact
  inHook,              \* the artifact whose Response hook is running, or NoFile
  hookCalls,           \* calls made by the hooks of this engine's callbacks
  lastDelegate,        \* result of the latest DelegateResponse call
  aborted,             \* an assert() ended the process
  notified,            \* calls of BusClient::ConfiguratorComplete for this engine
  dispatched,          \* dispatches of each artifact by this engine
  discovered,          \* artifacts the scan pushed onto the Backlog
  ownerRuns,           \* direct Run() calls by the owner on this engine
  lateRuns,            \* Run() calls entered when m_completed was already set
  hist,                \* what has happened in this pass (see NoHist)
  pass,                \* number of the engine instance
  prevAllApplied,      \* the previous pass was a fully successful Apply pass
  modified,            \* artifacts modified since the previous pass ended
  faults,
  touches

\* the tree and the handler's cache policy
fsVars == <<exists, rootExists, mtime, noCache>>
\* what the engine and callback code writes (see Cur and Commit)
engVars == <<m_configs, m_pendingConfigs, m_completed, m_scanned, m_emptyConfigurator,
             m_parentDirMap, m_configureOk, m_configureFailed, stamps, cb, notified,
             dispatched, discovered, lateRuns, hist, lastDelegate>>
passVars == <<m_currentType, pass, prevAllApplied>>

vars == <<fsVars, engVars, passVars, inHook, hookCalls, aborted,
          ownerRuns, modified, faults, touches>>

Range(seq) == {seq[i] : i \in 1..Len(seq)}

RECURSIVE Count(_, _)
\* number of times x occurs in seq
Count(seq, x) ==
  IF seq = <<>> THEN 0
  ELSE (IF Head(seq) = x THEN 1 ELSE 0) + Count(Tail(seq), x)

Min(a, b) == IF a < b THEN a ELSE b

\* ConfiguratorCallback::ConfiguratorCallback; state "none" stands for "no
\* callback was created for this artifact"
NoCallback ==
  [state |-> "none", m_delegateInvoked |-> FALSE, m_unconfigure |-> FALSE,
   m_configure |-> FALSE, m_defaultCacheBehaviourUsed |-> FALSE,
   err |-> MojErrNone, success |-> TRUE, asyncCalls |-> 0]

NewCallback == [NoCallback EXCEPT !.state = "waiting"]

\* the callback after ResponseWrapper returned: its slot is cancelled and nothing
\* calls it again; only the count of completions it delivered is kept
Finished(c) == [NoCallback EXCEPT !.state = "done", !.asyncCalls = c.asyncCalls]

\* history of the pass
NoHist ==
  [inProgress |-> FALSE,     \* some dispatch returned MojErrInProgress
   asyncNoRun |-> FALSE,     \* some BusResponseAsync returned without calling Run()
   syncFailed |-> {}]        \* artifacts whose dispatch failed synchronously

\* the state the engine code works on, as one record
Cur ==
  [m_configs |-> m_configs, m_pendingConfigs |-> m_pendingConfigs,
   m_completed |-> m_completed, m_scanned |-> m_scanned,
   m_emptyConfigurator |-> m_emptyConfigurator, m_parentDirMap |-> m_parentDirMap,
   m_configureOk |-> m_configureOk, m_configureFailed |-> m_configureFailed,
   stamps |-> stamps, cb |-> cb, notified |-> notified, dispatched |-> dispatched,
   discovered |-> discovered, lateRuns |-> lateRuns, hist |-> hist,
   lastDelegate |-> lastDelegate]

Commit(s) ==
  /\ m_configs' = s.m_configs
  /\ m_pendingConfigs' = s.m_pendingConfigs
  /\ m_completed' = s.m_completed
  /\ m_scanned' = s.m_scanned
  /\ m_emptyConfigurator' = s.m_emptyConfigurator
  /\ m_parentDirMap' = s.m_parentDirMap
  /\ m_configureOk' = s.m_configureOk
  /\ m_configureFailed' = s.m_configureFailed
  /\ stamps' = s.stamps
  /\ cb' = s.cb
  /\ notified' = s.notified
  /\ dispatched' = s.dispatched
  /\ discovered' = s.discovered
  /\ lateRuns' = s.lateRuns
  /\ hist' = s.hist
  /\ lastDelegate' = s.lastDelegate

\* what the engine code reads and does not write
Env == [type |-> m_currentType, exists |-> exists, rootExists |-> rootExists,
        mtime |-> mtime, noCache |-> noCache]

\* ------------------------------------------------------- the timestamp cache
\* Configurator::CanCacheConfiguratorStatus, as the handler overrides it
CanCacheConfiguratorStatus(env, confFile) == confFile \notin env.noCache

\* Configurator::IsAlreadyConfigured. MojStat of the stamp fails when there is
\* no stamp file, MojStat of the artifact when the file is absent.
IsAlreadyConfigured(stampTimes, env, confFile) ==
  IF ~CanCacheConfiguratorStatus(env, confFile) THEN FALSE
  ELSE IF stampTimes[StampOf(confFile)] = 0 THEN FALSE
  ELSE IF confFile \notin env.exists THEN FALSE
  ELSE stampTimes[StampOf(confFile)] >= env.mtime[confFile]

\* inherited[1].tv_sec = confFileInfo.st_mtim.tv_sec + 1
InheritedTime(confMtime) == confMtime + 1

\* Configurator::MarkConfigured. io: whether MojStat, open and futimens succeed,
\* and the current time (used when times is NULL).
MarkConfigured(s, env, confFile, io) ==
  IF ~CanCacheConfiguratorStatus(env, confFile) THEN s
  ELSE LET statOk == io.statOk /\ confFile \in env.exists
           times == IF statOk THEN InheritedTime(env.mtime[confFile]) ELSE io.now
           stamp == StampOf(confFile)
       IN IF ~io.openOk THEN s
          ELSE IF ~io.futimensOk THEN [s EXCEPT !.stamps[stamp] = 0]
          ELSE [s EXCEPT !.stamps[stamp] = times]

\* Configurator::UnmarkConfigured; unlink of a missing stamp fails and is logged
UnmarkConfigured(s, env, confFile) ==
  IF ~CanCacheConfiguratorStatus(env, confFile) THEN s
  ELSE [s EXCEPT !.stamps[StampOf(confFile)] = 0]

\* ---------------------------------------------------------------- the scan
\* readdir of a directory: "." and ".." first, then the entries in the order
\* the platform gives them
Readdir(env, directory, order) ==
  IF directory = ConfigDir THEN <<Dot, DotDot>> \o order
  ELSE IF directory = DirB /\ FileBC \in env.exists THEN <<Dot, DotDot, NameC>>
  ELSE <<Dot, DotDot>>

\* the names in the root directory
RootEntries(ex) ==
  (IF FileA \in ex THEN {NameA} ELSE {}) \cup
  (IF FileB_C \in ex THEN {NameB_C} ELSE {}) \cup
  (IF FileBC \in ex THEN {NameB} ELSE {})

\* S_ISDIR(stat_buf.st_mode)
IsDir(filePath) == filePath = DirB

\* opendir succeeds
CanOpen(env, directory) ==
  IF directory = ConfigDir THEN env.rootExists ELSE directory = DirB

\* lines 444-453: one regular file found by the scan
FoundFile(s, env, parent, filePath) ==
  LET s1 == IF parent # <<>>
            THEN [s EXCEPT !.m_parentDirMap[filePath] = parent]
            ELSE s
  IN IF ~(env.type = Configure /\ IsAlreadyConfigured(s.stamps, env, filePath))
     THEN [s1 EXCEPT !.m_configs = Append(@, filePath),
                     !.discovered = @ \cup {filePath}]
     ELSE s1

RECURSIVE GetConfigFiles(_, _, _, _, _)
RECURSIVE ReadEntries(_, _, _, _, _, _)
\* the while loop over readdir in GetConfigFiles
ReadEntries(s, env, parent, directory, entries, scanIn) ==
  IF entries = <<>> THEN s
  ELSE LET filename == Head(entries)
           filePath == directory \o <<"/">> \o filename
       IN IF filename = Dot \/ filename = DotDot
          THEN ReadEntries(s, env, parent, directory, Tail(entries), scanIn)
          ELSE IF filePath = scanIn.statFail
          THEN s     \* stat failed: break
          ELSE IF IsDir(filePath)
          THEN ReadEntries(GetConfigFiles(s, env, filename, filePath, scanIn).s,
                           env, parent, directory, Tail(entries), scanIn)
          ELSE ReadEntries(FoundFile(s, env, parent, filePath),
                           env, parent, directory, Tail(entries), scanIn)

\* Configurator::GetConfigFiles: the state after the scan, and whether the
\* folder was found
GetConfigFiles(s, env, parent, directory, scanIn) ==
  IF ~CanOpen(env, directory) THEN [s |-> s, found |-> FALSE]
  ELSE [s |-> ReadEntries(s, env, parent, directory,
                          Readdir(env, directory, scanIn.order), scanIn),
        found |-> TRUE]

\* mutant: m_scanned is never set
ScanOnceForgets(s, env, scanIn) ==
  LET r == GetConfigFiles(s, env, <<>>, ConfigDir, scanIn)
  IN [r.s EXCEPT !.m_emptyConfigurator = (r.s.m_configs = <<>>)]

\* lines 330-340 of Run
ScanOnce(s, env, scanIn) ==
  IF ~s.m_scanned
  THEN LET r == GetConfigFiles(s, env, <<>>, ConfigDir, scanIn)
       IN [r.s EXCEPT !.m_emptyConfigurator = (r.s.m_configs = <<>>),
                      !.m_scanned = TRUE]
  ELSE s

\* ------------------------------------------------------------- the Run loop
\* Configurator::ReadFile: the content of the artifact, which is not its path
ReadFile(filePath) == <<"json">> \o filePath

\* mutant: the element is read but never removed
PopBackKeeps(seq) == seq

\* std::vector::pop_back
PopBack(seq) == SubSeq(seq, 1, Len(seq) - 1)

\* what one dispatch meets: whether the content parses, and what the handler's
\* ProcessConfig / ProcessConfigRemoval returns for the parsed payload
DispatchInputs ==
  {[parseOk |-> TRUE, handlerErr |-> e] :
     e \in {MojErrNone, MojErrInProgress, MojErrInvalidArg}}
  \cup {[parseOk |-> FALSE, handlerErr |-> MojErrNone]}

\* The handler's ProcessConfig(filePath, MojObject&) is subclass code: it starts
\* an asynchronous exchange when it returns success or the in-progress code.
HandlerStartsExchange(handlerErr) == handlerErr \in {MojErrNone, MojErrInProgress}

\* the subclass: creates the callback (CreateCallback) and sends the request
HandlerProcess(s, filePath, d) ==
  [s |-> IF HandlerStartsExchange(d.handlerErr)
         THEN [s EXCEPT !.cb[filePath] = NewCallback]
         ELSE s,
   err |-> d.handlerErr]

\* Configurator::ProcessConfig(filePath, json): MojErrCheck returns a parse error
ProcessConfig(s, filePath, d) ==
  IF ~d.parseOk THEN [s |-> s, err |-> MojErrJsonParse]
  ELSE HandlerProcess(s, filePath, d)

\* Configurator::ProcessConfigRemoval(filePath, json)
ProcessConfigRemoval(s, filePath, d) ==
  IF ~d.parseOk THEN [s |-> s, err |-> MojErrJsonParse]
  ELSE HandlerProcess(s, filePath, d)

\* mutant: the engine is marked completed but the sink is not told
CompleteUnnotified(s) == [s EXCEPT !.m_completed = TRUE]

\* Configurator::Complete
Complete(s) == [s EXCEPT !.notified = Min(@ + 1, 2), !.m_completed = TRUE]

\* mutant: the completed flag is not consulted
MayCompleteAgain(s) == s.m_pendingConfigs = <<>>

\* line 343: the condition under which Run() completes the engine
MayComplete(s) == s.m_pendingConfigs = <<>> /\ ~s.m_completed

\* mutant: the synchronous error is logged and the artifact dropped, unrecorded
SyncErrorUnrecorded(s, filePath, config, err) ==
  [s EXCEPT !.m_pendingConfigs = PopBack(@),
            !.hist.inProgress = @ \/ err = MojErrInProgress,
            !.hist.syncFailed = IF err = MojErrInProgress THEN @ ELSE @ \cup {filePath}]

\* mutant: the failing artifact is recorded but left in the Pending Set
SyncErrorStaysPending(s, filePath, config, err) ==
  IF err = MojErrInProgress
  THEN [s EXCEPT !.m_configureOk = Append(@, config), !.hist.inProgress = TRUE]
  ELSE [s EXCEPT !.m_configureFailed = Append(@, filePath),
                 !.hist.syncFailed = @ \cup {filePath}]

\* lines 375-391: what Run() does with a synchronous error of a dispatch
SyncError(s, filePath, config, err) ==
  LET s2 == IF err = MojErrInProgress
            THEN [s EXCEPT !.m_configureOk = Append(@, config),
                           !.hist.inProgress = TRUE]
            ELSE [s EXCEPT !.m_configureFailed = Append(@, filePath),
                           !.hist.syncFailed = @ \cup {filePath}]
  IN [s2 EXCEPT !.m_pendingConfigs = PopBack(@)]

\* the k-th dispatch of a call chain meets in.outs[k]
DispatchInput(in, k) ==
  IF k <= Len(in.outs) THEN in.outs[k]
  ELSE [parseOk |-> TRUE, handlerErr |-> MojErrNone]

RECURSIVE Run(_, _, _, _)
\* Configurator::Run
Run(s0, env, in, k) ==
  LET s == ScanOnce([s0 EXCEPT !.lateRuns = IF s0.m_completed THEN 1 ELSE @],
                    env, in.scan)
  IN IF s.m_configs = <<>>
     THEN IF MayComplete(s) THEN Complete(s) ELSE s
     ELSE LET filePath == s.m_configs[Len(s.m_configs)]
              s1 == [s EXCEPT !.m_configs = PopBack(@),
                              !.m_pendingConfigs = Append(@, filePath),
                              !.dispatched[filePath] = Min(@ + 1, 2)]
              config == ReadFile(filePath)
              r == IF env.type = RemoveConfiguration
                   THEN ProcessConfigRemoval(s1, filePath, DispatchInput(in, k))
                   ELSE ProcessConfig(s1, filePath, DispatchInput(in, k))
          IN IF r.err # MojErrNone
             THEN Run(SyncError(r.s, filePath, config, r.err), env, in, k + 1)
             ELSE r.s

\* ------------------------------------------------- asynchronous completion
MojErrNoMem == "MojErrNoMem"

\* lines 503-511: erase the first occurrence of config, if there is one
ErasePending(pending, config) ==
  IF config \in Range(pending)
  THEN LET i == CHOOSE j \in 1..Len(pending) :
                  pending[j] = config /\ \A h \in 1..(j - 1) : pending[h] # config
       IN SubSeq(pending, 1, i - 1) \o SubSeq(pending, i + 1, Len(pending))
  ELSE pending

\* line 516: the response is recorded as a failure
ResponseFailed(err, success) == err # MojErrNone \/ ~success

\* lines 526-532: a successful response: record it, take the default cache path
RecordSuccess(s, env, config, io) ==
  LET s2 == [s EXCEPT !.m_configureOk = Append(@, config),
                      !.cb[config].m_defaultCacheBehaviourUsed = TRUE]
  IN IF env.type # RemoveConfiguration
     THEN MarkConfigured(s2, env, config, io)
     ELSE UnmarkConfigured(s2, env, config)

\* line 517: a failed response: record it
RecordFailure(s, config) == [s EXCEPT !.m_configureFailed = Append(@, config)]

\* Configurator::BusResponseAsync; cacheConfigured points at the callback's
\* m_defaultCacheBehaviourUsed. in.toJsonOk: whether response.toJson succeeds.
BusResponseAsync(s0, env, config, success, err, in) ==
  LET s1 == [s0 EXCEPT !.m_pendingConfigs = ErasePending(@, config),
                       !.cb[config].asyncCalls = Min(@ + 1, 2)]
  IN IF ResponseFailed(err, success) /\ ~in.toJsonOk
     THEN [s |-> [RecordFailure(s1, config) EXCEPT !.hist.asyncNoRun = TRUE],
           result |-> MojErrNoMem]
     ELSE [s |-> Run(IF ResponseFailed(err, success)
                     THEN RecordFailure(s1, config)
                     ELSE RecordSuccess(s1, env, config, in.io),
                     env, in, 1),
           result |-> MojErrNone]

\* ----------------------------------------------------- ConfiguratorCallback
\* lines 65-66 of DelegateResponse: the flags set before the call
DelegateInvoked(s, f) ==
  [s EXCEPT !.cb[f].m_delegateInvoked = TRUE,
            !.cb[f].m_defaultCacheBehaviourUsed = FALSE]

\* line 67 of DelegateResponse: the result r of BusResponseAsync is returned
\* (and kept as the result of the last DelegateResponse call)
Delegated(r) == [s |-> [r.s EXCEPT !.lastDelegate = r.result], result |-> r.result]

\* mutant: m_delegateInvoked is not checked
DelegateResponseUnguarded(s, env, f, err, in) ==
  Delegated(BusResponseAsync(DelegateInvoked(s, f), env, f, s.cb[f].success, err, in))

\* ConfiguratorCallback::DelegateResponse
DelegateResponse(s, env, f, err, in) ==
  IF s.cb[f].m_delegateInvoked
  THEN [s |-> [s EXCEPT !.lastDelegate = MojErrAccessDenied],
        result |-> MojErrAccessDenied]
  ELSE Delegated(BusResponseAsync(DelegateInvoked(s, f), env, f, s.cb[f].success,
                                  err, in))

\* lines 94-95 of ResponseWrapper: delegate unless the hook did
AutoDelegate(s, env, f, result, in) ==
  IF ~s.cb[f].m_delegateInvoked
  THEN DelegateResponse(s, env, f, IF result = MojErrNone THEN s.cb[f].err ELSE result, in)
  ELSE [s |-> s, result |-> result]

\* mutant: ResponseWrapper marks the artifact whether or not the hook asked
HookCacheUpdateAlways(s, env, f, io) == MarkConfigured(s, env, f, io)

\* lines 97-105 of ResponseWrapper: the cache update the hook asked for
HookCacheUpdate(s, env, f, io) ==
  IF ~s.cb[f].m_defaultCacheBehaviourUsed
  THEN IF s.cb[f].m_unconfigure THEN UnmarkConfigured(s, env, f)
       ELSE IF s.cb[f].m_configure THEN MarkConfigured(s, env, f, io)
       ELSE s
  ELSE s

\* line 106: ResponseWrapper returns and the callback is finished
WrapperDone(s, f) == [s EXCEPT !.cb[f] = Finished(@), !.lastDelegate = MojErrNone]

\* ConfiguratorCallback::ResponseWrapper from the return of the hook (Response)
\* with result to its own return
ResponseWrapperTail(s, env, f, result, in) ==
  WrapperDone(HookCacheUpdate(AutoDelegate(s, env, f, result, in).s, env, f, in.io), f)

\* ResponseWrapper when the hook throws: MojErrThrowMsg returns MojErrInternal
ResponseWrapperCatch(s, f) ==
  [s EXCEPT !.cb[f] = Finished(@), !.lastDelegate = MojErrNone]

\* ---------------------------------------------------------------- inputs
Perms(S) ==
  {o \in [1..Cardinality(S) -> S] : \A i, j \in 1..Cardinality(S) : o[i] = o[j] => i = j}

\* the paths whose stat the scan may find failing
StatTargets(ex) == ex \cup (IF FileBC \in ex THEN {DirB} ELSE {})

NoScan == [order |-> <<>>, statFail |-> NoFile]

\* what a scan meets: the readdir order of the root, and the entry whose stat fails
ScanInputs ==
  IF m_scanned THEN {NoScan}
  ELSE {[order |-> o, statFail |-> p] :
          o \in Perms(RootEntries(exists)), p \in {NoFile} \cup StatTargets(exists)}

ScanFaults(scanIn) == IF scanIn.statFail = NoFile THEN 0 ELSE 1

IoOk == [statOk |-> TRUE, openOk |-> TRUE, futimensOk |-> TRUE, now |-> 1]

\* the readings of the clock: not after any artifact's time, or after them all
NowCases == {1, MaxTime}

\* what MarkConfigured meets: all well, MojStat fails (and the clock reads now),
\* open fails, or futimens fails
IoCases ==
  {IoOk, [IoOk EXCEPT !.openOk = FALSE], [IoOk EXCEPT !.futimensOk = FALSE]}
  \cup {[IoOk EXCEPT !.statOk = FALSE, !.now = t] : t \in NowCases}

\* what one asynchronous completion meets besides the dispatches that follow
AsyncFaultCases ==
  {[toJsonOk |-> TRUE, io |-> i] : i \in IoCases}
  \cup {[toJsonOk |-> FALSE, io |-> IoOk]}

NoFault == [toJsonOk |-> TRUE, io |-> IoOk]

AsyncIn(fc, outs) ==
  [scan |-> NoScan, outs |-> outs, toJsonOk |-> fc.toJsonOk, io |-> fc.io]

\* the responses an exchange may resolve with: error code and returnValue
ResponseCases ==
  {[err |-> MojErrNone, success |-> TRUE], [err |-> MojErrNone, success |-> FALSE],
   [err |-> MojErrInternal, success |-> TRUE]}

Waiting == {f \in AllFiles : cb[f].state = "waiting"}

\* ----------------------------------------------------------------- actions
Init ==
  /\ exists \in {S \in SUBSET AllFiles : Cardinality(S) <= MaxFiles}
  /\ rootExists \in {b \in BOOLEAN : exists # {} => b}
  /\ mtime = [f \in AllFiles |-> IF f \in exists THEN 1 ELSE 0]
  /\ noCache \in {{}, {FileA} \cap exists}
  \* the cache directory outlives the process: an artifact the handler does not
  \* cache now may have a stamp left from an earlier run
  /\ stamps \in {[n \in StampNames |-> IF n \in old THEN 1 ELSE 0] :
                   old \in SUBSET {StampOf(f) : f \in noCache}}
  /\ m_currentType \in RunTypes
  /\ m_configs = <<>>
  /\ m_pendingConfigs = <<>>
  /\ m_completed = FALSE
  /\ m_scanned = FALSE
  /\ m_emptyConfigurator = FALSE
  /\ m_parentDirMap = [f \in AllFiles |-> <<>>]
  /\ m_configureOk = <<>>
  /\ m_configureFailed = <<>>
  /\ cb = [f \in AllFiles |-> NoCallback]
  /\ inHook = NoFile
  /\ hookCalls = 0
  /\ lastDelegate = MojErrNone
  /\ aborted = FALSE
  /\ notified = 0
  /\ dispatched = [f \in AllFiles |-> 0]
  /\ discovered = {}
  /\ ownerRuns = 0
  /\ lateRuns = 0
  /\ hist = NoHist
  /\ pass = 1
  /\ prevAllApplied = FALSE
  /\ modified = {}
  /\ faults = 0
  /\ touches = 0

\* the engine moves to s under fault case fc, which counts as a fault only if
\* it makes a difference to the fault-free outcome s0
CommitFaulty(s, s0, fc) ==
  /\ fc = NoFault \/ s # s0
  /\ faults + (IF fc = NoFault THEN 0 ELSE 1) <= MaxFaults
  /\ faults' = faults + (IF fc = NoFault THEN 0 ELSE 1)
  /\ Commit(s)

\* the owner calls Run()
OwnerRun ==
  /\ ~aborted /\ inHook = NoFile /\ ownerRuns < MaxOwnerRuns
  /\ \E scanIn \in ScanInputs :
       /\ faults + ScanFaults(scanIn) <= MaxFaults
       /\ \E outs \in [1..Len(ScanOnce(Cur, Env, scanIn).m_configs) -> DispatchInputs] :
            Commit(Run(Cur, Env, [scan |-> scanIn, outs |-> outs], 1))
       /\ faults' = faults + ScanFaults(scanIn)
  /\ ownerRuns' = ownerRuns + 1
  /\ UNCHANGED <<fsVars, passVars, inHook, hookCalls, aborted,
                 modified, touches>>

\* the exchange of artifact f resolves: ResponseWrapper cancels the slot and
\* calls the hook (lines 84-87)
ResponseArrives ==
  /\ ~aborted /\ inHook = NoFile
  /\ \E f \in Waiting, resp \in ResponseCases :
       /\ cb' = [cb EXCEPT ![f].state = "hook", ![f].err = resp.err,
                           ![f].success = resp.success]
       /\ inHook' = f
  /\ UNCHANGED <<fsVars, passVars, m_configs, m_pendingConfigs, m_completed, m_scanned,
                 m_emptyConfigurator, m_parentDirMap, m_configureOk, m_configureFailed,
                 stamps, notified, dispatched, discovered, lateRuns, hist, lastDelegate,
                 hookCalls, aborted, ownerRuns, modified, faults,
                 touches>>

\* the running hook calls DelegateResponse(response, e)
HookDelegateResponse ==
  /\ ~aborted /\ inHook # NoFile /\ hookCalls < MaxHookCalls
  /\ \E e \in {MojErrNone, MojErrInvalidArg}, fc \in AsyncFaultCases,
        outs \in [1..Len(m_configs) -> DispatchInputs] :
       CommitFaulty(DelegateResponse(Cur, Env, inHook, e, AsyncIn(fc, outs)).s,
                    DelegateResponse(Cur, Env, inHook, e, AsyncIn(NoFault, outs)).s,
                    fc)
  /\ hookCalls' = hookCalls + 1
  /\ UNCHANGED <<fsVars, passVars, inHook, aborted, ownerRuns, modified, touches>>

\* the running hook calls ConfiguratorCallback::MarkConfigured; a failing
\* assert ends the process, or is compiled out (NDEBUG)
HookMarkConfigured ==
  /\ ~aborted /\ inHook # NoFile /\ hookCalls < MaxHookCalls
  /\ ~cb[inHook].m_configure
  /\ \/ /\ cb[inHook].m_unconfigure
        /\ aborted' = TRUE
        /\ cb' = cb
     \/ /\ aborted' = aborted
        /\ cb' = [cb EXCEPT ![inHook].m_configure = TRUE]
  /\ hookCalls' = hookCalls + 1
  /\ UNCHANGED <<fsVars, passVars, m_configs, m_pendingConfigs, m_completed, m_scanned,
                 m_emptyConfigurator, m_parentDirMap, m_configureOk, m_configureFailed,
                 stamps, notified, dispatched, discovered, lateRuns, hist, lastDelegate,
                 inHook, ownerRuns, modified, faults, touches>>

\* the running hook calls ConfiguratorCallback::UnmarkConfigured
HookUnmarkConfigured ==
  /\ ~aborted /\ inHook # NoFile /\ hookCalls < MaxHookCalls
  /\ ~cb[inHook].m_unconfigure
  /\ \/ /\ cb[inHook].m_configure
        /\ aborted' = TRUE
        /\ cb' = cb
     \/ /\ aborted' = aborted
        /\ cb' = [cb EXCEPT ![inHook].m_unconfigure = TRUE]
  /\ hookCalls' = hookCalls + 1
  /\ UNCHANGED <<fsVars, passVars, m_configs, m_pendingConfigs, m_completed, m_scanned,
                 m_emptyConfigurator, m_parentDirMap, m_configureOk, m_configureFailed,
                 stamps, notified, dispatched, discovered, lateRuns, hist, lastDelegate,
                 inHook, ownerRuns, modified, faults, touches>>

\* the hook returns result: the rest of ResponseWrapper (lines 94-106)
HookReturns ==
  /\ ~aborted /\ inHook # NoFile
  /\ \E result \in {MojErrNone, MojErrInvalidArg}, fc \in AsyncFaultCases,
        outs \in [1..Len(m_configs) -> DispatchInputs] :
       CommitFaulty(ResponseWrapperTail(Cur, Env, inHook, result, AsyncIn(fc, outs)),
                    ResponseWrapperTail(Cur, Env, inHook, result, AsyncIn(NoFault, outs)),
                    fc)
  /\ inHook' = NoFile
  /\ UNCHANGED <<fsVars, passVars, hookCalls, aborted, ownerRuns, modified, touches>>

\* the hook throws: the catch blocks of ResponseWrapper (lines 88-92)
HookThrows ==
  /\ ~aborted /\ inHook # NoFile
  /\ faults < MaxFaults
  /\ faults' = faults + 1
  /\ Commit(ResponseWrapperCatch(Cur, inHook))
  /\ inHook' = NoFile
  /\ UNCHANGED <<fsVars, passVars, hookCalls, aborted, ownerRuns, modified, touches>>

\* every exchange of this engine has been answered and handled
Quiet == inHook = NoFile /\ Waiting = {}

\* Configurator::ResetConfigStats
ResetConfigStats ==
  /\ m_configureOk' = <<>>
  /\ m_configureFailed' = <<>>

\* the owner, after the engine signalled completion: resets the outcome lists
\* and constructs the next engine (Configurator::Configurator) over the same tree
NewPass ==
  /\ ~aborted /\ m_completed /\ Quiet /\ pass < MaxPasses
  /\ pass' = pass + 1
  /\ prevAllApplied' = (/\ m_currentType = Configure
                        /\ discovered = exists
                        /\ Range(m_configureOk) = exists
                        /\ m_configureFailed = <<>>
                        /\ noCache = {}
                        /\ faults = 0)
  /\ modified' = {}
  /\ ResetConfigStats
  /\ m_currentType' \in RunTypes
  /\ m_configs' = <<>>
  /\ m_pendingConfigs' = <<>>
  /\ m_completed' = FALSE
  /\ m_scanned' = FALSE
  /\ m_emptyConfigurator' = FALSE
  /\ m_parentDirMap' = [f \in AllFiles |-> <<>>]
  /\ cb' = [f \in AllFiles |-> NoCallback]
  /\ hookCalls' = 0
  /\ lastDelegate' = MojErrNone
  /\ notified' = 0
  /\ dispatched' = [f \in AllFiles |-> 0]
  /\ discovered' = {}
  /\ ownerRuns' = 0
  /\ lateRuns' = 0
  /\ hist' = NoHist
  /\ UNCHANGED <<fsVars, stamps, inHook, aborted, faults, touches>>

\* the outside world modifies an artifact while no engine is working on the tree
Touch ==
  /\ ~aborted /\ ~m_scanned /\ touches < MaxTouches
  /\ \E f \in exists, t \in 1..MaxMtime :
       /\ t > mtime[f]
       /\ mtime' = [mtime EXCEPT ![f] = t]
       /\ modified' = modified \cup {f}
  /\ touches' = touches + 1
  /\ UNCHANGED <<exists, rootExists, noCache, engVars, passVars, inHook,
                 hookCalls, aborted, ownerRuns, faults>>

Next ==
  \/ OwnerRun
  \/ ResponseArrives
  \/ HookDelegateResponse
  \/ HookMarkConfigured
  \/ HookUnmarkConfigured
  \/ HookReturns
  \/ HookThrows

Spec == Init /\ [][Next]_vars

NextPasses ==
  \/ OwnerRun
  \/ ResponseArrives
  \/ HookReturns
  \/ NewPass
  \/ Touch

SpecPasses == Init /\ [][NextPasses]_vars

\* ------------------------------------------------------------------ claims
\* occurrences of artifact f in the two outcome lists together
Recorded(f) == Count(m_configureOk, f) + Count(m_configureFailed, f)

\* C1: over any sequence of Run() calls and asynchronous completions on one
\* engine, the Completion Sink is notified at most once, and only with the
\* Backlog and the Pending Set both empty; once the engine is completed, no step
\* notifies the sink again or dispatches anything.
C1_CompletesOnce ==
  [][pass' = pass =>
       /\ notified' # notified =>
            /\ notified = 0 /\ notified' = 1
            /\ m_configs' = <<>> /\ m_pendingConfigs' = <<>>
       /\ m_completed => notified' = notified /\ dispatched' = dispatched]_vars

\* the engine completed after two artifacts, and Run() was entered again later
C1_Witness ==
  /\ notified = 1 /\ m_completed /\ lateRuns = 1
  /\ Cardinality(discovered) = 2

\* C2 (as claimed): when the owner calls Run() once, at most one artifact is
\* dispatched and still awaiting its asynchronous response, also after a
\* dispatch returned the in-progress code.
C2_OneInFlight == ownerRuns <= 1 => Cardinality(Waiting) <= 1

\* C3: in a pass without an in-progress dispatch, once the Completion Sink has
\* been notified every artifact the scan put on the Backlog is recorded exactly
\* once in the two outcome lists together.
C3_RecordedOnce ==
  (m_completed /\ ~hist.inProgress) => \A f \in discovered : Recorded(f) = 1

\* a completed pass with one artifact applied and one failed
C3_Witness ==
  /\ m_completed /\ notified = 1 /\ ~hist.inProgress
  /\ Cardinality(discovered) = 2
  /\ Len(m_configureOk) = 1 /\ Len(m_configureFailed) = 1

\* C4: no artifact path is in both the Backlog and the Pending Set.
C4_BacklogPendingDisjoint == Range(m_configs) \cap Range(m_pendingConfigs) = {}

\* one artifact is pending while another is still on the Backlog
C4_Witness == m_configs # <<>> /\ m_pendingConfigs # <<>>

\* C5 (as claimed): after the owner's single Run(), once every exchange has been
\* answered through its callback the engine has completed (empty Backlog, empty
\* Pending Set, sink notified).
C5_AnsweredMeansCompleted ==
  (ownerRuns = 1 /\ Quiet /\ ~aborted) =>
    (m_completed /\ notified = 1 /\ m_configs = <<>> /\ m_pendingConfigs = <<>>)

\* C6 (as claimed): every invocation of BusResponseAsync calls Run() before it
\* returns.
C6_AsyncAlwaysRuns == ~hist.asyncNoRun

\* a step in which Run() handled the synchronous failure of artifact f
SyncFailedNow(f) == f \in hist'.syncFailed /\ f \notin hist.syncFailed

\* the call chain of the step ended with a dispatch that returned success
ChainDispatched == Len(m_pendingConfigs') = Len(m_pendingConfigs) + 1

\* C7 (as claimed): a synchronous failure records the artifact as failed, removes
\* it from the Pending Set, and the same Run() goes on to dispatch the next
\* Backlog artifact, or to completion if the Backlog is empty.
C7_SyncFailureContinues ==
  [][\A f \in AllFiles : SyncFailedNow(f) =>
       /\ Count(m_configureFailed', f) = Count(m_configureFailed, f) + 1
       /\ f \notin Range(m_pendingConfigs')
       /\ ChainDispatched \/ (m_configs' = <<>> /\ m_completed' /\ notified' = 1)]_vars

\* C7 (amended): ... or, if the Backlog is empty, to the completion check, which
\* completes the engine unless another artifact is still in the Pending Set.
C7_SyncFailureContinuesOrChecks ==
  [][\A f \in AllFiles : SyncFailedNow(f) =>
       /\ Count(m_configureFailed', f) = Count(m_configureFailed, f) + 1
       /\ f \notin Range(m_pendingConfigs')
       /\ \/ ChainDispatched
          \/ /\ m_configs' = <<>>
             /\ (m_completed' /\ notified' = 1) \/ m_pendingConfigs' # <<>>]_vars

\* the owner's first Run(): one artifact failed synchronously and the next one
\* was dispatched and awaits its response
C7_Witness ==
  /\ ownerRuns = 1 /\ hist.syncFailed # {}
  /\ Len(m_configureFailed) = 1 /\ m_configureOk = <<>>
  /\ Cardinality(Waiting) = 1 /\ Len(m_pendingConfigs) = 1
  /\ \A f \in AllFiles : cb[f].state \in {"none", "waiting"}

\* a step in which the running hook called DelegateResponse
DelegateCallStep ==
  /\ inHook # NoFile /\ hookCalls' = hookCalls + 1 /\ aborted' = aborted
  /\ cb'[inHook].m_configure = cb[inHook].m_configure
  /\ cb'[inHook].m_unconfigure = cb[inHook].m_unconfigure

\* C8: a DelegateResponse call on a callback that already delegated returns the
\* access-denied error and leaves the outcome lists, the Pending Set, the
\* Backlog and the stamps unchanged; BusResponseAsync is reached at most once
\* per callback.
C8_SecondDelegateDenied ==
  /\ [][(DelegateCallStep /\ cb[inHook].m_delegateInvoked) =>
          /\ lastDelegate' = MojErrAccessDenied
          /\ UNCHANGED <<m_configureOk, m_configureFailed, m_pendingConfigs,
                         m_configs, stamps>>]_vars
  /\ [](\A f \in AllFiles : cb[f].asyncCalls <= 1)

\* a hook has called DelegateResponse a second time and was refused
C8_Witness ==
  /\ inHook # NoFile /\ lastDelegate = MojErrAccessDenied
  /\ cb[inHook].asyncCalls = 1 /\ hookCalls = 2

\* C9 (as claimed): every resolution of an exchange results in exactly one
\* delegation to BusResponseAsync, also when the hook raises a fault.
C9_ExactlyOneDelegation ==
  \A f \in AllFiles : cb[f].state = "done" => cb[f].asyncCalls = 1

\* C10 (as claimed): after an Apply pass in which every artifact got a successful
\* response with caching enabled (and no stamp failed to be written), a second
\* Apply pass over the unmodified tree finds nothing to dispatch and completes
\* on its first Run().
C10_SecondPassSkipsAll ==
  (pass >= 2 /\ prevAllApplied /\ modified = {} /\ faults = 0
     /\ m_currentType = Configure /\ m_scanned) =>
    (/\ discovered = {}
     /\ \A f \in AllFiles : dispatched[f] = 0
     /\ m_completed)

\* the two artifacts whose paths map to the same stamp name are both present
StampShared == FileB_C \in exists /\ FileBC \in exists

\* C11 (as claimed): after a fully successful Apply pass, when exactly one
\* artifact has been modified since (its modification time is now any greater
\* value), the next Apply pass puts that artifact and only that artifact on the
\* Backlog, and dispatches nothing else.
C11_ModifiedIsRedispatched ==
  (pass >= 2 /\ prevAllApplied /\ Cardinality(modified) = 1 /\ faults = 0
     /\ ~StampShared /\ m_currentType = Configure /\ m_scanned) =>
    (/\ discovered = modified
     /\ \A f \in AllFiles : dispatched[f] > 0 => f \in modified)

\* a step in which the successful response of artifact f was recorded, so that
\* BusResponseAsync ran MarkConfigured(f) (lines 526-530)
MarkedNow(f) ==
  /\ m_currentType # RemoveConfiguration
  /\ Count(m_configureOk', f) = Count(m_configureOk, f) + 1

\* C12 (as claimed): if the stamp of an artifact exists right after
\* MarkConfigured ran for it following a successful Apply, the stamp's
\* modification time is strictly greater than the artifact's, also when the
\* artifact's time could not be read, when an older stamp existed, and when
\* creating or timestamping the stamp failed.
C12_StampIsNewer ==
  [][\A f \in AllFiles :
       (MarkedNow(f) /\ stamps'[StampOf(f)] # 0) => stamps'[StampOf(f)] > mtime[f]]_vars

\* a step in Remove mode in which the successful response of f was recorded
RemovedNow(f) ==
  /\ m_currentType = RemoveConfiguration
  /\ Count(m_configureOk', f) = Count(m_configureOk, f) + 1

\* C13 (as claimed): in Remove mode a successful asynchronous response for an
\* artifact erases its stamp, also when CanCacheConfiguratorStatus is false for
\* it, and IsAlreadyConfigured is false for it right afterwards.
C13_RemoveErasesStamp ==
  [][\A f \in AllFiles :
       RemovedNow(f) =>
         /\ stamps'[StampOf(f)] = 0
         /\ ~IsAlreadyConfigured(stamps', Env, f)]_vars

\* a step of the exchange of artifact f (a call by its hook, or the rest of
\* ResponseWrapper) in or before which the response was delegated and
\* BusResponseAsync recorded it as failed (error code or false success flag)
FailedResponseNow(f) ==
  /\ inHook = f
  /\ f \in Range(m_configureFailed')

\* the stamp of artifact f was created or given a new time in the step
StampWritten(f) ==
  stamps'[StampOf(f)] # 0 /\ stamps'[StampOf(f)] # stamps[StampOf(f)]

\* C14 (as claimed): when an asynchronous response carries an error code or a
\* false success flag, the artifact is appended to the failed list and not to
\* the applied-successfully list, and no stamp is written for it while the
\* exchange is handled, whatever the hook did.
C14_FailedResponseNoStamp ==
  [][\A f \in AllFiles :
       FailedResponseNow(f) =>
         /\ Count(m_configureFailed', f) = 1 /\ Count(m_configureOk', f) = 0
         /\ ~StampWritten(f)]_vars

\* C14 (amended): ... and no stamp is written for it while the exchange is
\* handled, unless the hook requested mark-applied on the callback, in which
\* case ResponseWrapper writes the stamp after the delegation.
C14_FailedResponseStampOnlyOnRequest ==
  [][\A f \in AllFiles :
       FailedResponseNow(f) =>
         /\ Count(m_configureFailed', f) = 1 /\ Count(m_configureOk', f) = 0
         /\ StampWritten(f) =>
              /\ cb[f].m_configure /\ ~cb[f].m_unconfigure
              /\ inHook' = NoFile]_vars

\* the hook requested mark-applied, the response was a failure: the artifact is
\* in the failed list only, and ResponseWrapper wrote its stamp
C14_Witness ==
  /\ exists = {FileA} /\ noCache = {} /\ inHook = NoFile
  /\ cb[FileA].state = "done" /\ cb[FileA].asyncCalls = 1
  /\ m_configureFailed = <<FileA>> /\ m_configureOk = <<>>
  /\ hist.syncFailed = {}
  /\ stamps[StampOf(FileA)] # 0

FirstRunStep == ~m_scanned /\ m_scanned'

\* C16: if the scan leaves the Backlog empty (root directory missing, root
\* empty, or every artifact skipped by the cache), then in every run mode the
\* first Run() notifies the Completion Sink, dispatches nothing, returns true
\* (its result is m_configs.empty()), and leaves both outcome lists unchanged.
C16_EmptyScanCompletes ==
  [][(FirstRunStep /\ discovered' = {}) =>
       /\ notified = 0 /\ notified' = 1 /\ m_completed'
       /\ dispatched' = dispatched
       /\ m_configs' = <<>>
       /\ m_configureOk' = m_configureOk
       /\ m_configureFailed' = m_configureFailed]_vars

\* a second Apply pass found every artifact of a non-empty tree stamped, and its
\* first Run() completed the engine
C16_Witness ==
  /\ pass = 2 /\ m_currentType = Configure /\ exists # {} /\ rootExists
  /\ faults = 0 /\ ownerRuns = 1
  /\ m_scanned /\ discovered = {} /\ m_completed /\ notified = 1

\* C17 (as claimed): an artifact whose dispatch returned the in-progress code
\* stays in the Pending Set until its asynchronous response arrives, and the
\* Completion Sink is not notified while that response is outstanding; so every
\* artifact awaiting its response is in the Pending Set of an engine that has
\* not completed.
C17_InProgressStaysPending ==
  hist.inProgress =>
    \A f \in Waiting : f \in Range(m_pendingConfigs) /\ ~m_completed /\ notified = 0

\* the step in which ResponseWrapper for artifact f comes to its end, without a
\* failure of the stamp's I/O; the hook returned or threw
WrapperEndStep(f) ==
  /\ inHook = f /\ inHook' = NoFile
  /\ faults' = faults \/ cb'[f].asyncCalls = 0

\* the stamp of f after the hook's request q ("mark", "unmark") was applied
StampAfter(f, q) ==
  IF f \in noCache THEN stamps
  ELSE [stamps EXCEPT ![StampOf(f)] = IF q = "mark" THEN mtime[f] + 1 ELSE 0]

\* C18 (as claimed): for one exchange handled by ResponseWrapper at most one
\* cache update is applied. If the default path updated the cache during the
\* delegation (successful response), the hook's request is ignored; otherwise
\* exactly the update the hook requested, if any, is applied once the
\* delegation has returned.
C18_OneCacheUpdate ==
  [][\A f \in AllFiles :
       (WrapperEndStep(f) /\ ~(cb[f].m_configure /\ cb[f].m_unconfigure)) =>
         IF cb[f].m_defaultCacheBehaviourUsed
         THEN stamps' = stamps
         ELSE IF Count(m_configureOk', f) > Count(m_configureOk, f)
         THEN stamps' = StampAfter(f, IF m_currentType = RemoveConfiguration
                                      THEN "unmark" ELSE "mark")
         ELSE IF cb[f].m_unconfigure THEN stamps' = StampAfter(f, "unmark")
         ELSE IF cb[f].m_configure THEN stamps' = StampAfter(f, "mark")
         ELSE stamps' = stamps]_vars

\* C19: the directory scan is performed only by the first Run() of an engine
\* instance: after it the set of discovered artifacts is fixed and the Backlog
\* never grows, and no artifact is dispatched more than once per instance,
\* over any sequence of Run() calls and asynchronous completions.
C19_ScanOnceDispatchOnce ==
  [][pass' = pass =>
       /\ ownerRuns >= 1 =>
            /\ m_scanned /\ m_scanned'
            /\ discovered' = discovered
            /\ Len(m_configs') <= Len(m_configs)
       /\ \A f \in AllFiles : dispatched'[f] <= 1]_vars

\* two artifacts were found by the first Run(); after a second Run() by the
\* owner and the completions each has been dispatched once
C19_Witness ==
  /\ ownerRuns = 2 /\ Cardinality(discovered) = 2 /\ m_configs = <<>>
  /\ \A f \in discovered : dispatched[f] = 1
  /\ \E f \in discovered : cb[f].state = "done"

\* the artifacts a scan in the current state must put on the Backlog: every
\* regular file under the root, except in Apply mode those already configured
ExpectedBacklog ==
  {f \in exists : ~(m_currentType = Configure /\ IsAlreadyConfigured(stamps, Env, f))}

\* C20 (as claimed): after the scan of a readable tree the Backlog holds exactly
\* the regular files found under the root minus, in Apply mode only, those for
\* which IsAlreadyConfigured is true, and the Parent-Directory Map has an entry
\* only for a file that was pushed onto the Backlog and has a parent directory.
C20_ScanResult ==
  [][(FirstRunStep /\ rootExists /\ faults' = faults) =>
       /\ discovered' = ExpectedBacklog
       /\ \A f \in AllFiles :
            m_parentDirMap'[f] # <<>> => (f \in discovered' /\ f = FileBC)]_vars
====
